---- MODULE Spec2Model ----
(***************************************************************************)
(* Model of task-handler (src/src/index.js): the task reference created by *)
(* createTaskRef and the handler created by createTaskHandler.             *)
(*                                                                         *)
(* One handler is modelled.  Every handler operation is synchronous in the *)
(* source, so an operation and every call it makes is one action.  The     *)
(* nested calls are written as operators from a state record to a state    *)
(* record (S -> S'); an action applies such an operator to the current     *)
(* state and commits the result.  Promise reactions (the code after an     *)
(* `await`) run as separate microtask steps.                               *)
(***************************************************************************)
EXTENDS Integers, Sequences, FiniteSets, TLC

\* ---- bounds ----
NumIds == 2
MaxRefs == 2
MaxPromises == 2
MaxIters == 1
MaxFirings == 1
\* iterators of the runs in which several consumers iterate one reference
\* (SpecIters)
MaxSharedIters == 2

Ids == 1..NumIds
RefIds == 1..MaxRefs
PromiseIds == 1..(MaxPromises + MaxSharedIters)

\* ---- JavaScript values ----
\* A value is a record: t is its typeof, v its printed content, taskRef the
\* back-reference an error object carries (0: none).
Val(t, v) == [t |-> t, v |-> v, taskRef |-> 0]
UNDEFINED == Val("undefined", "")
TASK_CANCELLED == Val("symbol", "TASK_CANCELLED")
RefVal(r) == [t |-> "ref", v |-> "", taskRef |-> r]
ErrX == Val("object", "x")
StrBoom == Val("string", "boom")
Zero == Val("number", "0")
V1 == Val("string", "v1")

\* what a caller-supplied function may return, and what it may throw
Returned == {V1}
Thrown == {ErrX, StrBoom, Zero}

\* `if (err)`: JavaScript truthiness
Truthy(x) == ~(x.t = "undefined" \/ (x.t = "number" /\ x.v = "0") \/ (x.t = "string" /\ x.v = ""))

\* `typeof err === 'object' ? err : new Error(err)`, then `error.taskRef = ref`
NormalizeError(err, r) ==
  LET error == IF err.t = "object" THEN err ELSE Val("object", err.v)
  IN [error EXCEPT !.taskRef = r]

\* ---- state ----
VARIABLES
  refs,       \* the registry: id -> reference (0: no entry); the canceller is the reference's kind
  n,          \* number of references created so far
  ref,        \* reference -> its fields and the closure variables of createTaskRef
  timers,     \* references whose setTimeout / setInterval is armed
  queue,      \* references with an entry in the deferral queue
  np,         \* number of promises created so far
  promises,   \* promise -> [state, value]
  waiting,    \* continuations suspended at an `await` of a pending promise, in order
  micro,      \* the microtask queue: continuations ready to run
  iters,      \* the async iterators obtained from promises()
  delivered,  \* reference -> number of result deliveries (firings, resolve, reject) so far
  notified,   \* references the handler has cancelled (cancelID ran for them)
  late,       \* references whose function was invoked after the handler cancelled them
  failed,     \* reference -> how its work failed (ghost)
  ignored,    \* TRUE once a reference was handed a result after it was complete (ghost)
  lastCancel, \* the reference whose cancel() was the last step (0: any other step);
              \* recorded by SpecTraced only (ghost)
  owner,      \* promise -> the reference whose getNextPromise created it (0: none) (ghost)
  hooks,      \* job reference -> number of calls of its job's cancelled hook
  joined,     \* the job references whose awaitables the traced cancel / clear call
              \* collected; recorded by SpecJoin only
  joiner,     \* the promise() of that call's joiner: "none", "pending", "resolved"
  hookDone    \* job references whose cancelled() awaitable has resolved

vars == <<refs, n, ref, timers, queue, np, promises, waiting, micro, iters,
          delivered, notified, late, failed, ignored, lastCancel,
          owner, hooks, joined, joiner, hookDone>>

NoRef ==
  [id |-> 0, type |-> "none", now |-> FALSE,
   complete |-> FALSE, error |-> FALSE, cancelled |-> FALSE,
   lastResult |-> UNDEFINED, promise |-> 0, promiseActions |-> 0, job |-> FALSE]

NoPromise == [state |-> "none", value |-> UNDEFINED]
NoFailure == [is |-> FALSE, p |-> 0]

\* the current state as a record; ok turns FALSE when an operation would
\* exceed a bound, and such an operation is not taken
Cur ==
  [refs |-> refs, n |-> n, ref |-> ref, timers |-> timers, queue |-> queue,
   np |-> np, promises |-> promises, waiting |-> waiting, micro |-> micro,
   iters |-> iters, delivered |-> delivered, notified |-> notified,
   late |-> late, failed |-> failed, ignored |-> ignored, lastCancel |-> 0,
   owner |-> owner, hooks |-> hooks, joined |-> joined, joiner |-> joiner,
   hookDone |-> hookDone, collected |-> {}, ok |-> TRUE]

Commit(S) ==
  /\ S.ok
  /\ refs' = S.refs
  /\ n' = S.n
  /\ ref' = S.ref
  /\ timers' = S.timers
  /\ queue' = S.queue
  /\ np' = S.np
  /\ promises' = S.promises
  /\ waiting' = S.waiting
  /\ micro' = S.micro
  /\ iters' = S.iters
  /\ delivered' = S.delivered
  /\ notified' = S.notified
  /\ late' = S.late
  /\ failed' = S.failed
  /\ ignored' = S.ignored
  /\ lastCancel' = S.lastCancel
  /\ owner' = S.owner
  /\ hooks' = S.hooks
  /\ joined' = S.joined
  /\ joiner' = S.joiner
  /\ hookDone' = S.hookDone

Init ==
  /\ refs = [i \in Ids |-> 0]
  /\ n = 0
  /\ ref = [r \in RefIds |-> NoRef]
  /\ timers = {}
  /\ queue = {}
  /\ np = 0
  /\ promises = [p \in PromiseIds |-> NoPromise]
  /\ waiting = <<>>
  /\ micro = <<>>
  /\ iters = <<>>
  /\ delivered = [r \in RefIds |-> 0]
  /\ notified = {}
  /\ late = {}
  /\ failed = [r \in RefIds |-> NoFailure]
  /\ ignored = FALSE
  /\ lastCancel = 0
  /\ owner = [p \in PromiseIds |-> 0]
  /\ hooks = [r \in RefIds |-> 0]
  /\ joined = {}
  /\ joiner = "none"
  /\ hookDone = {}

\* ---- promises ----
\* mutant of Settle: a later settlement overwrites the outcome
MutSettle(S, p, st, val) ==
  [S EXCEPT !.promises[p] = [state |-> st, value |-> val],
            !.micro = @ \o SelectSeq(S.waiting, LAMBDA c : c.p = p),
            !.waiting = SelectSeq(S.waiting, LAMBDA c : c.p # p)]

\* resolve / reject of a native promise: the first settlement wins; the
\* continuations awaiting it become microtasks in the order they awaited
Settle(S, p, st, val) ==
  IF S.promises[p].state # "pending" THEN S
  ELSE [S EXCEPT !.promises[p] = [state |-> st, value |-> val],
                 !.micro = @ \o SelectSeq(S.waiting, LAMBDA c : c.p = p),
                 !.waiting = SelectSeq(S.waiting, LAMBDA c : c.p # p)]

\* `await promise`: suspend continuation c until promise p is settled
Await(S, c) ==
  IF S.promises[c.p].state = "pending"
  THEN [S EXCEPT !.waiting = Append(@, c)]
  ELSE [S EXCEPT !.micro = Append(@, c)]

\* the promises a run may create: MaxPromises, and one more for every
\* iterator beyond MaxIters
PromiseCap(S) ==
  MaxPromises + (IF Len(S.iters) > MaxIters THEN Len(S.iters) - MaxIters ELSE 0)

getNextPromise(S, r) ==
  IF S.ref[r].promise # 0 THEN S
  ELSE IF S.np >= PromiseCap(S) THEN [S EXCEPT !.ok = FALSE]
  ELSE [S EXCEPT !.np = @ + 1,
                 !.promises[S.np + 1] = [state |-> "pending", value |-> UNDEFINED],
                 !.owner[S.np + 1] = r,
                 !.ref[r].promise = S.np + 1,
                 !.ref[r].promiseActions = S.np + 1]

\* `promiseActions = undefined; promise = undefined`
ClearPromise(S, r) ==
  [S EXCEPT !.ref[r].promiseActions = 0, !.ref[r].promise = 0]

\* mutant of promisedResult: every call makes a promise of its own
MutPromisedResult(S, r) ==
  IF S.ref[r].complete THEN ClearPromise(S, r)
  ELSE LET S1 == getNextPromise(ClearPromise(S, r), r) IN
       IF ~S1.ok THEN S1
       ELSE Await(S1, [k |-> "promisedResult", r |-> r, p |-> S1.ref[r].promise, i |-> 0])

\* the synchronous part of promisedResult(), up to its `await`
promisedResult(S, r) ==
  IF S.ref[r].promise # 0 THEN S
  ELSE IF S.ref[r].complete THEN ClearPromise(S, r)
  ELSE LET S1 == getNextPromise(S, r) IN
       IF ~S1.ok THEN S1
       ELSE Await(S1, [k |-> "promisedResult", r |-> r, p |-> S1.ref[r].promise, i |-> 0])

\* ---- the reference ----
\* mutant of TaskCancelled: the pending promise is settled on the reject path
MutTaskCancelled(S, r) ==
  IF S.ref[r].complete THEN S
  ELSE LET S1 == [S EXCEPT !.ref[r].lastResult = TASK_CANCELLED,
                           !.ref[r].cancelled = TRUE,
                           !.ref[r].complete = TRUE]
       IN IF S1.ref[r].promiseActions # 0
          THEN Settle(S1, S1.ref[r].promiseActions, "rejected", RefVal(r))
          ELSE S1

\* mutant of CancelledHook: what the hook returns is not pushed
MutCancelledHook(S, r) ==
  IF S.ref[r].job
  THEN [S EXCEPT !.hooks[r] = @ + 1]
  ELSE S

\* `if (job) promises.push(job.cancelled())`: the job's cancelled hook is
\* called and what it returns is pushed on the array of the cancel call (the
\* jobs modelled have the hook)
CancelledHook(S, r) ==
  IF S.ref[r].job
  THEN [S EXCEPT !.hooks[r] = @ + 1, !.collected = @ \cup {r}]
  ELSE S

\* ref[TASK_CANCELLED](promises)
TaskCancelled(S, r) ==
  IF S.ref[r].complete THEN S
  ELSE LET S1 == [S EXCEPT !.ref[r].lastResult = TASK_CANCELLED,
                           !.ref[r].cancelled = TRUE,
                           !.ref[r].complete = TRUE]
       IN CancelledHook(IF S1.ref[r].promiseActions # 0
                        THEN Settle(S1, S1.ref[r].promiseActions, "resolved", RefVal(r))
                        ELSE S1, r)

\* mutant of ExecuteResult: a result completes a task of any type
MutExecuteResultOnce(S, r, err, result) ==
  IF S.ref[r].complete THEN S
  ELSE LET S1 == [S EXCEPT !.ref[r].lastResult = result,
                           !.ref[r].complete = TRUE]
       IN IF S1.ref[r].promiseActions # 0
          THEN IF Truthy(err)
               THEN Settle(S1, S1.ref[r].promiseActions, "rejected", NormalizeError(err, r))
               ELSE Settle(S1, S1.ref[r].promiseActions, "resolved", RefVal(r))
          ELSE S1

\* mutant of ExecuteResult: no check of status.complete
MutExecuteResult(S, r, err, result) ==
  LET S1 == [S EXCEPT !.ref[r].lastResult = result,
                      !.ref[r].complete = (S.ref[r].type # "every")]
  IN IF S1.ref[r].promiseActions # 0
     THEN IF Truthy(err)
          THEN Settle(S1, S1.ref[r].promiseActions, "rejected", NormalizeError(err, r))
          ELSE Settle(S1, S1.ref[r].promiseActions, "resolved", RefVal(r))
     ELSE S1

\* ref[EXECUTE_RESULT](err, result)
ExecuteResult(S, r, err, result) ==
  IF S.ref[r].complete THEN S
  ELSE LET S1 == [S EXCEPT !.ref[r].lastResult = result,
                           !.ref[r].complete = (S.ref[r].type # "every")]
       IN IF S1.ref[r].promiseActions # 0
          THEN IF Truthy(err)
               THEN Settle(S1, S1.ref[r].promiseActions, "rejected", NormalizeError(err, r))
               ELSE Settle(S1, S1.ref[r].promiseActions, "resolved", RefVal(r))
          ELSE S1

\* ghost: one more result delivery for r, or one more delivery that found r
\* complete
Deliver(S, r) ==
  IF S.ref[r].complete THEN [S EXCEPT !.ignored = TRUE]
  ELSE [S EXCEPT !.delivered[r] = @ + 1]

\* ghost: the work of r failed (its function threw, or reject was called)
\* while promise p (0: none) was pending
Fail(S, r) ==
  IF S.failed[r].is \/ S.ref[r].complete THEN S
  ELSE [S EXCEPT !.failed[r] =
          [is |-> TRUE,
           p |-> IF S.ref[r].promise # 0 /\ S.promises[S.ref[r].promise].state = "pending"
                 THEN S.ref[r].promise ELSE 0]]

\* ---- the deferral queue (createDeferQueue) ----
\* add(key, callback): one entry per registration, run once
QueueAdd(q, r) == q \cup {r}
\* the function add() returns: removes the registration
QueueRemove(q, r) == q \ {r}

\* ---- the handler ----
\* mutant of Canceller: the canceller of everyNow clears the interval only
MutCanceller(S, r) ==
  CASE S.ref[r].type = "after" -> [S EXCEPT !.timers = @ \ {r}]
    [] S.ref[r].type = "defer" -> [S EXCEPT !.queue = QueueRemove(@, r)]
    [] S.ref[r].type = "every" -> [S EXCEPT !.timers = @ \ {r}]
    [] OTHER -> S

\* the canceller thunk stored with the reference in the registry
Canceller(S, r) ==
  CASE S.ref[r].type = "after" -> [S EXCEPT !.timers = @ \ {r}]
    [] S.ref[r].type = "defer" -> [S EXCEPT !.queue = QueueRemove(@, r)]
    [] S.ref[r].type = "every" /\ ~S.ref[r].now -> [S EXCEPT !.timers = @ \ {r}]
    [] S.ref[r].type = "every" /\ S.ref[r].now ->
         [S EXCEPT !.timers = @ \ {r}, !.queue = QueueRemove(@, r)]
    [] OTHER -> S

cancelID(S, id) ==
  IF S.refs[id] = 0 THEN S
  ELSE LET r == S.refs[id]
           S1 == Canceller(S, r)
           S2 == [S1 EXCEPT !.refs[id] = 0, !.notified = @ \cup {r}]
       IN TaskCancelled(S2, r)

\* mutant of cancel: only the first id is cancelled
MutCancel(S, ids) ==
  IF ids = <<>> THEN S
  ELSE cancelID(S, Head(ids))

RECURSIVE cancel(_, _)
\* handler.cancel(...ids)
cancel(S, ids) ==
  IF ids = <<>> THEN S
  ELSE cancel(cancelID(S, Head(ids)), Tail(ids))

\* mutant of NewRef: createTaskRef without its handler.cancel(id)
MutNewRef(S, type, now, id) ==
  IF S.n >= MaxRefs THEN [S EXCEPT !.ok = FALSE]
  ELSE [S EXCEPT !.n = @ + 1,
                 !.ref[S.n + 1] = [NoRef EXCEPT !.id = id, !.type = type, !.now = now]]

\* createTaskRef without a job descriptor
NewRef(S, type, now, id) ==
  LET S1 == cancel(S, <<id>>) IN
  IF S1.n >= MaxRefs THEN [S1 EXCEPT !.ok = FALSE]
  ELSE [S1 EXCEPT !.n = @ + 1,
                  !.ref[S1.n + 1] = [NoRef EXCEPT !.id = id, !.type = type, !.now = now]]

after(S, id) ==
  LET S1 == NewRef(S, "after", FALSE, id) IN
  IF ~S1.ok THEN S1
  ELSE [S1 EXCEPT !.timers = @ \cup {S1.n}, !.refs[id] = S1.n]

defer(S, id) ==
  LET S1 == NewRef(S, "defer", FALSE, id) IN
  IF ~S1.ok THEN S1
  ELSE [S1 EXCEPT !.queue = QueueAdd(@, S1.n), !.refs[id] = S1.n]

every(S, id) ==
  LET S1 == NewRef(S, "every", FALSE, id) IN
  IF ~S1.ok THEN S1
  ELSE [S1 EXCEPT !.timers = @ \cup {S1.n}, !.refs[id] = S1.n]

everyNow(S, id) ==
  LET S1 == NewRef(S, "every", TRUE, id) IN
  IF ~S1.ok THEN S1
  ELSE [S1 EXCEPT !.timers = @ \cup {S1.n}, !.queue = QueueAdd(@, S1.n), !.refs[id] = S1.n]

\* what job.start does before it returns
StartBehaviours ==
  [k : {"async"}, v : {UNDEFINED}]
    \cup [k : {"resolve"}, v : Returned]
    \cup [k : {"reject"}, v : Thrown]
    \cup [k : {"after"}, v : {UNDEFINED}]

\* mutant of job: handler.job does not register the reference
MutJob(S, id, start) ==
  LET S1 == NewRef(S, "job", FALSE, id) IN
  IF ~S1.ok THEN S1
  ELSE LET r == S1.n
           S2 == promisedResult([S1 EXCEPT !.ref[r].job = TRUE], r)
       IN CASE start.k = "resolve" -> ExecuteResult(Deliver(S2, r), r, UNDEFINED, start.v)
            [] start.k = "reject" -> ExecuteResult(Deliver(Fail(S2, r), r), r, start.v, UNDEFINED)
            [] start.k = "after" -> after(S2, id)
            [] OTHER -> S2

\* createTaskRef with a job descriptor (job = factory(); ref.promise().catch(NOOP);
\* job.start(ref)), then the registration of handler.job
job(S, id, start) ==
  LET S1 == NewRef(S, "job", FALSE, id) IN
  IF ~S1.ok THEN S1
  ELSE LET r == S1.n
           S2 == promisedResult([S1 EXCEPT !.ref[r].job = TRUE], r)
           S3 == CASE start.k = "resolve" -> ExecuteResult(Deliver(S2, r), r, UNDEFINED, start.v)
                   [] start.k = "reject" -> ExecuteResult(Deliver(Fail(S2, r), r), r, start.v, UNDEFINED)
                   [] start.k = "after" -> after(S2, id)
                   [] OTHER -> S2
       IN IF ~S3.ok THEN S3 ELSE [S3 EXCEPT !.refs[id] = r]

\* what a caller-supplied function does when it is invoked
FnBehaviours ==
  [k : {"return"}, v : Returned]
    \cup [k : {"throw"}, v : Thrown]
    \cup [k : {"after"}, v : {V1}]

\* mutant of execute: a task that has run is dropped from the registry
MutExecute(S, r, fn) ==
  LET S0 == IF r \in S.notified THEN [S EXCEPT !.late = @ \cup {r}] ELSE S
      S1 == [S0 EXCEPT !.refs[S0.ref[r].id] = IF @ = r /\ S0.ref[r].type # "every" THEN 0 ELSE @]
  IN
  CASE fn.k = "return" -> ExecuteResult(Deliver(S1, r), r, UNDEFINED, fn.v)
    [] fn.k = "throw" -> ExecuteResult(Deliver(Fail(S1, r), r), r, fn.v, UNDEFINED)
    [] OTHER -> LET S2 == after(S1, S1.ref[r].id) IN
                IF ~S2.ok THEN S2 ELSE ExecuteResult(Deliver(S2, r), r, UNDEFINED, fn.v)

\* execute(ref, fn, args)
execute(S, r, fn) ==
  LET S0 == IF r \in S.notified THEN [S EXCEPT !.late = @ \cup {r}] ELSE S IN
  CASE fn.k = "return" -> ExecuteResult(Deliver(S0, r), r, UNDEFINED, fn.v)
    [] fn.k = "throw" -> ExecuteResult(Deliver(Fail(S0, r), r), r, fn.v, UNDEFINED)
    [] OTHER -> LET S1 == after(S0, S0.ref[r].id) IN
                IF ~S1.ok THEN S1 ELSE ExecuteResult(Deliver(S1, r), r, UNDEFINED, fn.v)

\* the getter ref.result
Result(r) == IF ref[r].complete THEN ref[r].lastResult ELSE UNDEFINED

\* the getter handler.size
size == Cardinality({id \in Ids : refs[id] # 0})

\* ---- actions ----
Created(r) == r \in 1..n
Recurring(r) == ref[r].type = "every"

After(id) ==
  /\ id \in Ids
  /\ Commit(after(Cur, id))
Defer(id) ==
  /\ id \in Ids
  /\ Commit(defer(Cur, id))
Every(id) ==
  /\ id \in Ids
  /\ Commit(every(Cur, id))
EveryNow(id) ==
  /\ id \in Ids
  /\ Commit(everyNow(Cur, id))
Job(id, start) ==
  /\ id \in Ids
  /\ Commit(job(Cur, id, start))

\* handler.cancel(...ids)
Cancel(ids) ==
  /\ ids # <<>>
  /\ Commit(cancel(Cur, ids))

\* handler.clear(): handler.cancel(...Array.from(refs.keys()))
RECURSIVE KeysFrom(_, _)
KeysFrom(S, i) ==
  IF i > NumIds THEN <<>>
  ELSE (IF S.refs[i] # 0 THEN <<i>> ELSE <<>>) \o KeysFrom(S, i + 1)
Keys(S) == KeysFrom(S, 1)
\* (on a handler that never had a task, clear() has nothing to do)
Clear ==
  /\ n > 0
  /\ Commit(cancel(Cur, Keys(Cur)))

\* ref.cancel()
refCancel(S, r) ==
  cancel([S EXCEPT !.ref[r].lastResult = TASK_CANCELLED, !.ref[r].cancelled = TRUE],
         <<S.ref[r].id>>)

RefCancel(r) ==
  /\ Created(r)
  /\ Commit(refCancel(Cur, r))

\* ref.cancel(), recorded in lastCancel
RefCancelTraced(r) ==
  /\ Created(r)
  /\ Commit([refCancel(Cur, r) EXCEPT !.lastCancel = r])

\* ref.resolve(result) / ref.reject(err)
resolve(S, r, result) == ExecuteResult(Deliver(S, r), r, UNDEFINED, result)
reject(S, r, err) == ExecuteResult(Deliver(Fail(S, r), r), r, err, UNDEFINED)

CanDeliver(r) == ref[r].complete \/ delivered[r] < MaxFirings

Resolve(r, v) ==
  /\ Created(r)
  /\ CanDeliver(r)
  /\ Commit(resolve(Cur, r, v))
Reject(r, e) ==
  /\ Created(r)
  /\ CanDeliver(r)
  /\ Commit(reject(Cur, r, e))

\* the setTimeout / setInterval callback of r runs (a macrotask: the
\* microtask queue is empty)
FireTimer(r, fn) ==
  /\ r \in timers
  /\ micro = <<>>
  /\ CanDeliver(r)
  /\ Commit(execute([Cur EXCEPT !.timers = IF Recurring(r) THEN @ ELSE @ \ {r}], r, fn))

\* the deferral queue runs the entry of r
FireQueue(r, fn) ==
  /\ r \in queue
  /\ CanDeliver(r)
  /\ Commit(execute([Cur EXCEPT !.queue = @ \ {r}], r, fn))

\* ref.promise()
Promise(r) ==
  /\ Created(r)
  /\ ~Recurring(r)
  /\ Commit(promisedResult(Cur, r))

\* the continuation of promisedResult after `await promise`
resumePromisedResult(S, c) ==
  IF S.promises[c.p].state = "rejected"
  THEN ClearPromise([S EXCEPT !.ref[c.r].error = TRUE,
                              !.ref[c.r].lastResult = S.promises[c.p].value], c.r)
  ELSE ClearPromise(S, c.r)

\* ref.promises(): the body of promiseIterator from the top of its loop to
\* its `await` (or to its end)
iterLoop(S, i) ==
  LET r == S.iters[i].r IN
  IF S.ref[r].complete
  THEN ClearPromise([S EXCEPT !.iters[i].pc = "done"], r)
  ELSE LET S1 == getNextPromise(S, r) IN
       IF ~S1.ok THEN S1
       ELSE Await([S1 EXCEPT !.iters[i].pc = "awaiting"],
                  [k |-> "promiseIterator", r |-> r, p |-> S1.ref[r].promise, i |-> i])

\* ref.promises() and the consumer's first next()
Promises(r) ==
  /\ Created(r)
  /\ Recurring(r)
  /\ Len(iters) < MaxIters
  /\ Commit(iterLoop([Cur EXCEPT !.iters = Append(@, [r |-> r, pc |-> "start", yields |-> 0])],
                     Len(iters) + 1))

\* the consumer's next() on an iterator suspended at `yield ref`
IterNext(i) ==
  /\ i \in 1..Len(iters)
  /\ iters[i].pc = "yielded"
  /\ Commit(iterLoop(ClearPromise(Cur, iters[i].r), i))

\* the continuation of promiseIterator after `await promise`
resumeIterator(S, c) ==
  IF S.promises[c.p].state = "rejected"
  THEN ClearPromise([S EXCEPT !.iters[c.i].pc = "threw"], c.r)
  ELSE [S EXCEPT !.iters[c.i].pc = "yielded", !.iters[c.i].yields = @ + 1]

\* the microtask at the head of the queue runs
Microtask ==
  /\ micro # <<>>
  /\ LET c == Head(micro)
         S == [Cur EXCEPT !.micro = Tail(@)]
     IN IF c.k = "promisedResult"
        THEN Commit(resumePromisedResult(S, c))
        ELSE Commit(resumeIterator(S, c))

\* every step but ref.cancel()
Others ==
  \/ \E id \in Ids : After(id)
  \/ \E id \in Ids : Defer(id)
  \/ \E id \in Ids : Every(id)
  \/ \E id \in Ids : EveryNow(id)
  \/ \E id \in Ids, start \in StartBehaviours : Job(id, start)
  \/ \E id \in Ids : Cancel(<<id>>)
  \/ Clear
  \/ \E r \in RefIds, v \in Returned : Resolve(r, v)
  \/ \E r \in RefIds, e \in Thrown : Reject(r, e)
  \/ \E r \in RefIds, fn \in FnBehaviours : FireTimer(r, fn)
  \/ \E r \in RefIds, fn \in FnBehaviours : FireQueue(r, fn)
  \/ \E r \in RefIds : Promise(r)
  \/ \E r \in RefIds : Promises(r)
  \/ \E i \in 1..MaxIters : IterNext(i)
  \/ Microtask

Next ==
  \/ Others
  \/ \E r \in RefIds : RefCancel(r)

\* the same steps, with every ref.cancel() recorded in lastCancel
NextTraced ==
  \/ Others
  \/ \E r \in RefIds : RefCancelTraced(r)

Spec == Init /\ [][Next]_vars

\* handler.cancel(...ids).promise(): the joiner of the call, made of the
\* awaitables the call collected, and Promise.all of them
CancelJoined(ids) ==
  /\ ids # <<>>
  /\ LET S == cancel(Cur, ids)
     IN Commit([S EXCEPT !.joined = S.collected, !.joiner = "pending"])

\* handler.clear().promise()
ClearJoined ==
  /\ n > 0
  /\ LET S == cancel(Cur, Keys(Cur))
     IN Commit([S EXCEPT !.joined = S.collected, !.joiner = "pending"])

\* the awaitable that the cancelled hook of job r returned resolves
HookResolves(r) ==
  /\ hooks[r] > 0
  /\ r \notin hookDone
  /\ Commit([Cur EXCEPT !.hookDone = @ \cup {r}])

\* Promise.all(promises) of the joiner resolves: each of its awaitables has
JoinerResolves ==
  /\ joiner = "pending"
  /\ joined \subseteq hookDone
  /\ Commit([Cur EXCEPT !.joiner = "resolved"])

\* the steps of handlers that run jobs and after-tasks and await the joiners
\* of cancel and clear
NextJoin ==
  \/ \E id \in Ids, start \in StartBehaviours : Job(id, start)
  \/ \E id \in Ids : After(id)
  \/ \E r \in RefIds, fn \in FnBehaviours : FireTimer(r, fn)
  \/ \E r \in RefIds, v \in Returned : Resolve(r, v)
  \/ \E r \in RefIds, e \in Thrown : Reject(r, e)
  \/ \E r \in RefIds : Promise(r)
  \/ \E r \in RefIds : RefCancel(r)
  \/ Microtask
  \/ \E id \in Ids : Cancel(<<id>>)
  \/ \E id \in Ids : CancelJoined(<<id>>)
  \/ ClearJoined
  \/ \E r \in RefIds : HookResolves(r)
  \/ JoinerResolves

SpecJoin == Init /\ [][NextJoin]_vars

\* ref.promises() and the first next(), by one of several consumers
PromisesShared(r) ==
  /\ Created(r)
  /\ Recurring(r)
  /\ Len(iters) < MaxSharedIters
  /\ Commit(iterLoop([Cur EXCEPT !.iters = Append(@, [r |-> r, pc |-> "start", yields |-> 0])],
                     Len(iters) + 1))

\* the steps of handlers that run recurring tasks iterated by several
\* consumers
NextIters ==
  \/ \E id \in Ids : Every(id)
  \/ \E id \in Ids : EveryNow(id)
  \/ \E r \in RefIds, fn \in FnBehaviours : FireTimer(r, fn)
  \/ \E r \in RefIds, fn \in FnBehaviours : FireQueue(r, fn)
  \/ \E r \in RefIds : PromisesShared(r)
  \/ \E i \in 1..MaxSharedIters : IterNext(i)
  \/ Microtask
  \/ \E id \in Ids : Cancel(<<id>>)
  \/ \E r \in RefIds : RefCancel(r)

SpecIters == Init /\ [][NextIters]_vars

SpecTraced == Init /\ [][NextTraced]_vars

\* ---- properties ----
Settled(p) == promises[p].state \in {"resolved", "rejected"}
Pending(p) == promises[p].state = "pending"
ResolvedWith(p, r) == promises[p] = [state |-> "resolved", value |-> RefVal(r)]

\* a live task: its timer or queue entry is armed, or it is a job that is
\* not complete
Live(r) ==
  /\ Created(r)
  /\ \/ r \in timers
     \/ r \in queue
     \/ ref[r].type = "job" /\ ~ref[r].complete

\* C1: every live task is the reference the registry holds under its id
\* (so there is at most one live task per id), whatever calls were made,
\* creation calls from inside a job's start or a task callback included.
C1_OneLiveTaskPerId ==
  \A r \in RefIds : Live(r) => refs[ref[r].id] = r

\* the step replaces the registered reference r1 by a newly created one
Superseded(r1) ==
  /\ Created(r1)
  /\ refs[ref[r1].id] = r1
  /\ refs'[ref[r1].id] \notin {0, r1}

\* after the step r1 is cancelled and the promise it held pending is
\* resolved with r1
CancelledTransparently(r1) ==
  /\ ref'[r1].cancelled
  /\ (ref[r1].promise # 0 /\ Pending(ref[r1].promise))
       => promises'[ref[r1].promise] = [state |-> "resolved", value |-> RefVal(r1)]

\* C2 as stated: creating a task under an id that has a registered reference
\* R1 leaves R1.status.cancelled true and R1's pending promise resolved with
\* R1 when the creation call returns, before the new reference can run.
C2_Original ==
  [][\A r1 \in RefIds : Superseded(r1) => CancelledTransparently(r1)]_vars

\* C2 amended: the same, for a registered reference R1 that is not yet
\* complete when the new task is created.
C2_SupersededIsCancelled ==
  [][\A r1 \in RefIds :
       (Superseded(r1) /\ ~ref[r1].complete) => CancelledTransparently(r1)]_vars

\* C2 witness: a reference that was superseded while its promise was pending:
\* it never got a result, its promise is resolved with it, and another
\* reference is registered under its id
C2_Witness ==
  \E r1 \in RefIds, p \in PromiseIds :
    /\ r1 \in notified
    /\ delivered[r1] = 0
    /\ ref[r1].cancelled
    /\ ResolvedWith(p, r1)
    /\ refs[ref[r1].id] \notin {0, r1}

C4_CancelStopsTask ==
  /\ late = {}
  /\ \A r \in notified : ref[r].complete /\ r \notin timers /\ r \notin queue

\* C4 witness: an everyNow reference cancelled before its immediate firing
C4_Witness ==
  \E r \in notified : ref[r].now /\ delivered[r] = 0 /\ ref[r].complete

\* C5: an iterator of a recurring reference never yields more values than
\* there were firings of that reference (a cancellation yields nothing).
C5_YieldsOnlyFirings ==
  \A i \in 1..Len(iters) : iters[i].yields <= delivered[iters[i].r]

\* C6: when the work of a non-recurring reference fails while a promise() is
\* pending, whatever value was thrown or passed to reject, that promise is
\* rejected with an error whose taskRef is the reference, and the reference
\* is complete.
C6_FailureRejects ==
  \A r \in RefIds :
    (Created(r) /\ ~Recurring(r) /\ failed[r].p # 0) =>
      /\ promises[failed[r].p].state = "rejected"
      /\ promises[failed[r].p].value.taskRef = r
      /\ ref[r].complete

\* no continuation of reference r is still to run
Quiet(r) ==
  /\ \A k \in 1..Len(micro) : micro[k].r # r
  /\ \A k \in 1..Len(waiting) : waiting[k].r # r

\* C7: once the work of a non-recurring reference has failed (and the
\* reactions to the failure have run), ref.result is the error and
\* status.error is true, whether or not promise() had been called.
C7_FailureRecorded ==
  \A r \in RefIds :
    (Created(r) /\ ~Recurring(r) /\ failed[r].is /\ Quiet(r)) =>
      /\ ref[r].error
      /\ Result(r).t = "object"

\* the step is the handler's cancellation of the registered reference r
CancelledNow(r) == r \notin notified /\ r \in notified'

\* C8: cancelling a registered reference that is not complete resolves the
\* promise it holds pending with the reference itself, and leaves
\* status.cancelled and status.complete true and status.error false.
C8_CancelResolves ==
  [][\A r \in RefIds :
       (CancelledNow(r) /\ ~ref[r].complete) =>
         /\ ref'[r].cancelled
         /\ ref'[r].complete
         /\ ~ref'[r].error
         /\ (ref[r].promise # 0 /\ Pending(ref[r].promise)) =>
              /\ promises'[ref[r].promise].state = "resolved"
              /\ promises'[ref[r].promise].value = RefVal(r)]_vars

\* C8 witness: a recurring reference that never got a result was cancelled
\* while its promise was pending: the cancellation resolved the promise
C8_Witness ==
  \E r \in notified, p \in PromiseIds :
    /\ Recurring(r)
    /\ delivered[r] = 0
    /\ ResolvedWith(p, r)
    /\ ref[r].cancelled /\ ref[r].complete /\ ~ref[r].error

\* the step hands a result to r: a firing of its timer or queue entry, or a
\* call of ref.resolve or ref.reject
Delivery(r) ==
  \/ \E v \in Returned : Resolve(r, v)
  \/ \E e \in Thrown : Reject(r, e)
  \/ \E fn \in FnBehaviours : FireTimer(r, fn)
  \/ \E fn \in FnBehaviours : FireQueue(r, fn)

\* C9: a firing, resolve or reject on a non-recurring reference that is
\* complete changes neither the reference (status, result, promise) nor the
\* outcome of the promise it holds.
C9_CompleteIsTerminal ==
  [][\A r \in RefIds :
       (Created(r) /\ ~Recurring(r) /\ ref[r].complete /\ Delivery(r)) =>
         /\ ref'[r] = ref[r]
         /\ ref[r].promise # 0 => promises'[ref[r].promise] = promises[ref[r].promise]]_vars

\* C9 witness: a result was handed to a complete reference, and a
\* non-recurring reference that completed normally still has its result
C9_Witness ==
  /\ ignored
  /\ \E r \in RefIds :
       Created(r) /\ ~Recurring(r) /\ ref[r].complete /\ Result(r) = V1

\* ref.cancel() has taken effect on r: r is cancelled and complete, its
\* result is the sentinel and it is not in the registry
AlreadyCancelled(r) ==
  /\ Created(r)
  /\ ref[r].cancelled
  /\ ref[r].complete
  /\ ref[r].lastResult = TASK_CANCELLED
  /\ refs[ref[r].id] # r

\* C10: a further ref.cancel() on a reference that is already cancelled
\* changes nothing: not the registry, not the armed timers and queue
\* entries, not any reference, not any promise.
C10_CancelIdempotent ==
  [][\A r \in RefIds :
       (AlreadyCancelled(r) /\ lastCancel' = r) =>
         /\ refs' = refs
         /\ timers' = timers
         /\ queue' = queue
         /\ ref' = ref
         /\ promises' = promises]_vars

\* C11: the registry holds an id exactly when a task was created under it
\* and the id has not been cancelled since: an entry is an uncancelled task
\* created under its id, an entry changes only in a step that creates a task
\* under the id or cancels the entry (so no firing, completion, resolve() or
\* reject() adds or removes one), every creation leaves its id registered,
\* and size counts the registered ids, complete ones included.
C11_RegistryTracksCreation ==
  /\ [](\A id \in Ids :
         refs[id] # 0 =>
           Created(refs[id]) /\ ref[refs[id]].id = id /\ refs[id] \notin notified)
  /\ [](size = Cardinality({ref[r].id : r \in {q \in 1..n : refs[ref[q].id] = q}}))
  /\ [][\A id \in Ids :
          refs'[id] # refs[id] =>
            \/ refs'[id] \in (n + 1)..n'
            \/ refs'[id] = 0 /\ refs[id] \notin notified /\ refs[id] \in notified']_vars
  /\ [][\A r \in (n + 1)..n' : refs'[ref'[r].id] # 0]_vars

\* a one-shot task has run and is complete, and its id is still registered
C11_Witness ==
  \E r \in RefIds :
    /\ Created(r) /\ ~Recurring(r)
    /\ ref[r].complete /\ delivered[r] = 1
    /\ refs[ref[r].id] = r
    /\ size >= 1

\* C12: when handler.clear() returns, size is 0 and every reference that
\* was registered when it was called is complete.
C12_ClearEmptiesRegistry ==
  [][Clear =>
       /\ size' = 0
       /\ \A id \in Ids : refs[id] # 0 => ref'[refs[id]].complete]_vars

\* the registry is empty and two tasks of different ids and kinds have been
\* cancelled through it
C12_Witness ==
  /\ size = 0
  /\ \E r1, r2 \in notified :
       /\ ref[r1].id # ref[r2].id
       /\ ref[r1].type # ref[r2].type
       /\ ref[r1].complete /\ ref[r2].complete
       /\ ref[r1].cancelled /\ ref[r2].cancelled

\* the continuations suspended on promise p
Awaiting(p) == {k \in 1..Len(waiting) : waiting[k].p = p}

\* C13: while the work of a non-recurring reference is outstanding every
\* promise() call observes one and the same pending promise: a pending
\* promise made for the reference is the one the reference holds (so there
\* is at most one), it stays the one held for as long as the reference is
\* not complete, and when it is settled everything awaiting it is resumed
\* in that step, with its one outcome.
C13_OnePendingPromise ==
  /\ [](\A r \in RefIds, p \in PromiseIds :
         Created(r) /\ ~Recurring(r) /\ owner[p] = r /\ Pending(p) =>
           ref[r].promise = p /\ ~ref[r].complete)
  /\ [][\A r \in RefIds :
          Created(r) /\ ~Recurring(r) /\ ref[r].promise # 0 /\ ~ref'[r].complete =>
            ref'[r].promise = ref[r].promise]_vars
  /\ [][\A p \in PromiseIds :
          Pending(p) /\ promises'[p].state # "pending" =>
            /\ \A k \in Awaiting(p) : \E m \in 1..Len(micro') : micro'[m] = waiting[k]
            /\ \A k \in 1..Len(waiting') : waiting'[k].p # p]_vars

\* promise() was called on an after- or defer-task that has not run: the
\* reference holds the pending promise made for it and a caller awaits it
C13_Witness ==
  \E r \in RefIds :
    /\ Created(r) /\ ref[r].type \in {"after", "defer"} /\ ~ref[r].complete
    /\ ref[r].promise # 0 /\ Pending(ref[r].promise)
    /\ owner[ref[r].promise] = r
    /\ Awaiting(ref[r].promise) # {}

\* a value was delivered to one-shot reference r while it was not complete,
\* and nothing failed: r completed normally (with V1, the one value returned)
CompletedNormally(r) ==
  Created(r) /\ ~Recurring(r) /\ delivered[r] = 1 /\ ~failed[r].is

\* C14: once the function of an after-task has returned v at its firing,
\* every promise() obtained for the reference is resolved to the reference,
\* and from then on result = v, complete = true, error = false and
\* cancelled = false.
C14_AfterDeliversValue ==
  \A r \in RefIds :
    CompletedNormally(r) /\ ref[r].type = "after" =>
      /\ Result(r) = V1
      /\ ref[r].complete /\ ~ref[r].error /\ ~ref[r].cancelled
      /\ \A p \in PromiseIds : owner[p] = r => ResolvedWith(p, r)

\* C15: a job whose start calls resolve(v) before it returns is, when
\* job() returns, complete with result v, with no timer and no queue entry
\* armed for it, and registered under its id.
C15_SyncJobComplete ==
  [][\A id \in Ids, v \in Returned :
       Job(id, [k |-> "resolve", v |-> v]) =>
         /\ n' = n + 1
         /\ ref'[n'].type = "job" /\ ref'[n'].id = id
         /\ ref'[n'].complete /\ ref'[n'].lastResult = v
         /\ ~ref'[n'].error /\ ~ref'[n'].cancelled
         /\ n' \notin timers' /\ n' \notin queue'
         /\ refs'[id] = n']_vars

\* job() has just returned for a job that resolved in start: the reference
\* is complete with the value and registered, and the continuation of the
\* promise() made at its creation is queued
C15_Witness ==
  \E r \in RefIds :
    /\ Created(r) /\ ref[r].type = "job"
    /\ ref[r].complete /\ Result(r) = V1 /\ delivered[r] = 1
    /\ refs[ref[r].id] = r
    /\ r \notin timers /\ r \notin queue
    /\ \E m \in 1..Len(micro) : micro[m].r = r /\ micro[m].k = "promisedResult"

\* C16: a recurring reference is not complete after any firing, resolve()
\* or reject(), and its result stays undefined; it becomes complete only in
\* a step that cancels it through the registry.
C16_RecurringCompletesByCancel ==
  /\ [](\A r \in RefIds :
         Created(r) /\ Recurring(r) =>
           /\ ref[r].complete => r \in notified /\ ref[r].cancelled
           /\ ~ref[r].complete => Result(r) = UNDEFINED)
  /\ [][\A r \in RefIds :
          Created(r) /\ Recurring(r) /\ ~ref[r].complete /\ ref'[r].complete =>
            r \notin notified /\ r \in notified']_vars

\* a recurring task has fired and is not complete
C16_Witness ==
  \E r \in RefIds :
    /\ Created(r) /\ Recurring(r)
    /\ delivered[r] >= 1
    /\ ~ref[r].complete /\ Result(r) = UNDEFINED
    /\ r \in timers

\* C17: the cancelled hook of a job is called at most once, and only in a
\* step that cancels the job while it is not complete; what the hooks called
\* during a cancel(...ids) or clear() call return is exactly what the call's
\* joiner holds, and the joiner's promise() is resolved only when all of
\* them have resolved.
C17_HookOnceAndJoined ==
  /\ [](\A r \in RefIds : hooks[r] <= 1)
  /\ [][\A r \in RefIds :
          hooks'[r] # hooks[r] =>
            /\ ref[r].type = "job" /\ ~ref[r].complete
            /\ CancelledNow(r) /\ ref'[r].complete /\ ref'[r].cancelled]_vars
  /\ [][(ClearJoined \/ \E id \in Ids : CancelJoined(<<id>>)) =>
          /\ joined' = {r \in RefIds : hooks'[r] > hooks[r]}
          /\ joiner' = "pending"]_vars
  /\ [](joiner = "resolved" => joined \subseteq hookDone)

\* clear() cancelled two jobs that were not complete, the hook of each was
\* called once, both awaitables have resolved and then the joiner has
C17_Witness ==
  /\ joiner = "resolved"
  /\ Cardinality(joined) = 2
  /\ \A r \in joined : hooks[r] = 1 /\ r \in hookDone /\ ref[r].type = "job"

\* iterator i is suspended at its `await promise`
Suspended(i) ==
  /\ iters[i].pc = "awaiting"
  /\ \E k \in 1..Len(waiting) : waiting[k].k = "promiseIterator" /\ waiting[k].i = i

\* C18: with several iterators on one recurring reference none stays
\* suspended: a step in which the task fires or is cancelled resumes every
\* iterator suspended on the reference, and no iterator is suspended on a
\* reference that is complete (so a consumer that keeps calling next() on a
\* cancelled task reaches the end).
C18_IteratorsResumed ==
  /\ [][\A i \in 1..Len(iters) :
          LET r == iters[i].r IN
          Suspended(i) /\ (delivered'[r] > delivered[r] \/ CancelledNow(r)) =>
            \E m \in 1..Len(micro') :
              micro'[m].k = "promiseIterator" /\ micro'[m].i = i]_vars
  /\ [](\A i \in 1..Len(iters) : ref[iters[i].r].complete => ~Suspended(i))

\* the status of reference q, its timer and queue entry and its registry
\* entry are the same before and after the step
Untouched(q) ==
  /\ ref'[q].complete = ref[q].complete
  /\ ref'[q].error = ref[q].error
  /\ ref'[q].cancelled = ref[q].cancelled
  /\ (q \in timers') = (q \in timers)
  /\ (q \in queue') = (q \in queue)
  /\ (refs'[ref[q].id] = q) = (refs[ref[q].id] = q)

\* C19: ref.cancel() affects the task of its reference only: every other
\* reference keeps its status, its timer and its registry entry, and a
\* cancel() on a reference that is not the registry entry of its id leaves
\* the registry and the armed timers and queue entries as they are.
C19_CancelTouchesOwnTask ==
  [][\A r \in RefIds :
       lastCancel' = r =>
         /\ \A q \in (1..n) \ {r} : Untouched(q)
         /\ refs[ref[r].id] # r =>
              refs' = refs /\ timers' = timers /\ queue' = queue]_vars

\* one-shot reference r ended through cancellation: it is complete without
\* a result having been delivered to it; a recurring one ends in no other way
EndedByCancellation(r) ==
  ref[r].complete /\ (Recurring(r) \/ delivered[r] = 0)

\* C20: cancelled is true, and the result is the sentinel, only on a
\* reference that ended through cancellation; a non-recurring reference that
\* completed normally with v keeps result = v and cancelled = false whatever
\* is called later.
C20_CancelledOnlyByCancellation ==
  \A r \in RefIds :
    Created(r) =>
      /\ ref[r].cancelled \/ Result(r) = TASK_CANCELLED => EndedByCancellation(r)
      /\ CompletedNormally(r) => Result(r) = V1 /\ ~ref[r].cancelled

====
